---------------------------- MODULE Spec2Model ----------------------------
(***************************************************************************)
(* Model of src/data/baby_dashboard.py: the loader load_data_from_github   *)
(* (with its nested parse_time), the two chart builders                    *)
(* create_detailed_chart and create_daily_stats_charts, and main.          *)
(*                                                                         *)
(* Python values are represented as follows.                               *)
(*   str            a sequence of one-character strings                    *)
(*   float NaN      NaN (a one-element sequence that is no str)            *)
(*   None / time    << >> / <<hour, minute, second>>                       *)
(*   number / NaN   <<n>> / << >> in a numeric column                      *)
(*   DataFrame      [columns |-> names, rows |-> sequence of rows];        *)
(*                  the Python None in its place is NoneDF                 *)
(*   an outcome     [exc |-> "" or the exception's name, val |-> value]    *)
(***************************************************************************)
EXTENDS Integers, Sequences, FiniteSets, TLC

VARIABLES
    pc,             \* position of the run
    raw_sleep,      \* what pd.read_csv(sleep_url) produced
    raw_feeding,    \* what pd.read_csv(feeding_url) produced
    sleep_df,       \* main's sleep_df
    feeding_df,     \* main's feeding_df
    errors,         \* the st.error messages shown so far, in order
    rendered,       \* the figures handed to st.plotly_chart so far, in order
    detailed_chart, \* outcome of create_detailed_chart
    daily_stats,    \* outcome of create_daily_stats_charts
    time_str,       \* the cell handed to parse_time
    parsed          \* outcome of parse_time

vars == <<pc, raw_sleep, raw_feeding, sleep_df, feeding_df, errors, rendered,
          detailed_chart, daily_stats, time_str, parsed>>

----------------------------------------------------------------------------
(* Python values *)

None == << >>

NaN == <<"NaN">>

NoneDF == [none |-> TRUE]

Digits == <<"0", "1", "2", "3", "4", "5", "6", "7", "8", "9">>

IsDigit(c) == \E i \in 1..10 : Digits[i] = c

DigitVal(c) == (CHOOSE i \in 1..10 : Digits[i] = c) - 1

AllDigits(s) == Len(s) > 0 /\ \A i \in 1..Len(s) : IsDigit(s[i])

RECURSIVE int(_)
\* int(s) for a str of decimal digits
int(s) ==
    IF Len(s) = 0 THEN 0
    ELSE 10 * int(SubSeq(s, 1, Len(s) - 1)) + DigitVal(s[Len(s)])

Ok(v) == [exc |-> "", val |-> v]

Raise(e) == [exc |-> e, val |-> None]

\* pd.isna of a scalar cell
isna(x) == x = NaN

\* str(x): a str is itself, the float NaN prints as nan
str(x) == IF x = NaN THEN <<"n", "a", "n">> ELSE x

HasColon(s) == \E i \in 1..Len(s) : s[i] = ":"

RECURSIVE split(_)
\* s.split(':')
split(s) ==
    IF ~HasColon(s) THEN <<s>>
    ELSE LET i == CHOOSE k \in 1..Len(s) :
                      s[k] = ":" /\ \A j \in 1..(k - 1) : s[j] # ":"
         IN  <<SubSeq(s, 1, i - 1)>> \o split(SubSeq(s, i + 1, Len(s)))

----------------------------------------------------------------------------
(* datetime.datetime.strptime(s, '%H:%M:%S').time()                        *)

\* the two-character alternatives of a directive's pattern:
\* %H 2[0-3]|[0-1]\d   %M [0-5]\d   %S 6[0-1]|[0-5]\d
TwoDigit(kind, a, b) ==
    CASE kind = "H" -> \/ a = "2" /\ b \in {"0", "1", "2", "3"}
                       \/ a \in {"0", "1"} /\ IsDigit(b)
      [] kind = "M" -> a \in {"0", "1", "2", "3", "4", "5"} /\ IsDigit(b)
      [] kind = "S" -> \/ a = "6" /\ b \in {"0", "1"}
                       \/ a \in {"0", "1", "2", "3", "4", "5"} /\ IsDigit(b)

\* the lengths a directive can take at position i, in the pattern's order
\* (the two-character alternatives first, then \d)
FieldLens(s, i, kind) ==
    (IF i + 1 <= Len(s) /\ TwoDigit(kind, s[i], s[i + 1]) THEN <<2>> ELSE << >>)
    \o (IF i <= Len(s) /\ IsDigit(s[i]) THEN <<1>> ELSE << >>)

RECURSIVE MatchFrom(_, _, _)
\* the first match of the directives `kinds`, separated by ':', from
\* position i: [end |-> position after the match, vals |-> the fields], or
\* end = 0 when the pattern does not match
MatchFrom(s, i, kinds) ==
    LET kind == Head(kinds)
        lens == FieldLens(s, i, kind)
        Try(l) ==
            IF Len(kinds) = 1
            THEN [end |-> i + l, vals |-> <<int(SubSeq(s, i, i + l - 1))>>]
            ELSE IF i + l <= Len(s) /\ s[i + l] = ":"
                 THEN LET r == MatchFrom(s, i + l + 1, Tail(kinds))
                      IN  IF r.end = 0 THEN r
                          ELSE [end |-> r.end,
                                vals |-> <<int(SubSeq(s, i, i + l - 1))>> \o r.vals]
                 ELSE [end |-> 0, vals |-> << >>]
        ok == {k \in 1..Len(lens) : Try(lens[k]).end # 0}
    IN  IF ok = {} THEN [end |-> 0, vals |-> << >>]
        ELSE Try(lens[CHOOSE k \in ok : \A j \in ok : k <= j])

\* the outcome of strptime(s, '%H:%M:%S').time(): the pattern must match at
\* the start and convert the whole string, and datetime(...) takes no second
\* above 59
strptime(s) ==
    LET m == MatchFrom(s, 1, <<"H", "M", "S">>)
    IN  IF m.end = 0 THEN Raise("ValueError")
        ELSE IF m.end # Len(s) + 1 THEN Raise("ValueError")
        ELSE IF m.vals[3] > 59 THEN Raise("ValueError")
        ELSE Ok(m.vals)

\* strptime of an argument that is no str raises TypeError
strptime_any(x) == IF x = NaN THEN Raise("TypeError") ELSE strptime(x)

----------------------------------------------------------------------------
(* parse_time *)

\* the body of parse_time's try block
parse_time_try(cell) ==
    IF HasColon(str(cell))
    THEN LET parts == split(str(cell))
             t == IF Len(parts) = 2 THEN cell \o <<":", "0", "0">> ELSE cell
         IN  strptime_any(t)
    ELSE Ok(None)

\* parse_time without its except clause
parse_time_noexcept(cell) ==
    IF isna(cell) THEN Ok(None) ELSE parse_time_try(cell)

parse_time(cell) ==
    IF isna(cell) THEN Ok(None)
    ELSE LET r == parse_time_try(cell)
         IN  IF r.exc # "" THEN Ok(None) ELSE r

----------------------------------------------------------------------------
(* DataFrames *)

\* the column names the loader assigns; the source's names are, in order,
\* the Chinese for date / fell asleep / woke up / total sleep time (mins)
\* and date / feeding type / feeding time / milk volume (ml)
SleepColumns == <<"date", "sleep_start", "sleep_end", "duration_minutes">>

FeedingColumns == <<"date", "feeding_type", "feeding_time", "volume_ml">>

DataFrame(columns, rows) == [columns |-> columns, rows |-> rows]

ColIndex(df, name) == CHOOSE i \in 1..Len(df.columns) : df.columns[i] = name

\* row[name] for a row of df
Get(df, row, name) == row[ColIndex(df, name)]

\* the cells of column `name`, by row
Cells(df, name) == [i \in 1..Len(df.rows) |-> Get(df, df.rows[i], name)]

\* whether converting a column raised, out[i] being the outcome for row i
Raised(out) == \E i \in 1..Len(out) : out[i].exc # ""

\* days of a month of the Gregorian calendar
DaysIn(y, m) ==
    IF m = 2
    THEN (IF (y % 4 = 0 /\ y % 100 # 0) \/ y % 400 = 0 THEN 29 ELSE 28)
    ELSE IF m \in {4, 6, 9, 11} THEN 30 ELSE 31

\* the Timestamp NaT
NaT == <<0, 0, 0>>

\* pd.to_datetime(errors='coerce') of one cell: NaT for a text that is no date
to_datetime_coerce(s) ==
    IF /\ Len(s) = 10
       /\ s[5] = "-" /\ s[8] = "-"
       /\ \A i \in {1, 2, 3, 4, 6, 7, 9, 10} : IsDigit(s[i])
       /\ int(SubSeq(s, 6, 7)) \in 1..12
       /\ int(SubSeq(s, 9, 10)) \in 1..DaysIn(int(SubSeq(s, 1, 4)), int(SubSeq(s, 6, 7)))
    THEN Ok(<<int(SubSeq(s, 1, 4)), int(SubSeq(s, 6, 7)), int(SubSeq(s, 9, 10))>>)
    ELSE Ok(NaT)

\* pd.to_datetime of one str cell written YYYY-MM-DD: the Timestamp
\* <<year, month, day>>, or ValueError for a text that is no date
to_datetime(s) ==
    IF /\ Len(s) = 10
       /\ s[5] = "-" /\ s[8] = "-"
       /\ \A i \in {1, 2, 3, 4, 6, 7, 9, 10} : IsDigit(s[i])
    THEN LET y == int(SubSeq(s, 1, 4))
             m == int(SubSeq(s, 6, 7))
             d == int(SubSeq(s, 9, 10))
         IN  IF m \in 1..12 /\ d \in 1..DaysIn(y, m)
             THEN Ok(<<y, m, d>>)
             ELSE Raise("ValueError")
    ELSE Raise("ValueError")

\* pd.to_numeric(errors='coerce') of one cell: the number, or NaN (<< >>)
\* for a cell that is no number
to_numeric(x) ==
    IF x # NaN /\ AllDigits(x) THEN Ok(<<int(x)>>) ELSE Ok(<< >>)

----------------------------------------------------------------------------
(* load_data_from_github, after the two reads *)

LoadResult(s, f, msgs) == [sleep_df |-> s, feeding_df |-> f, errors |-> msgs]

\* lines 70-71 and 76-77: the tables under their assigned column names
renamed(rs, rf) ==
    [sleep |-> DataFrame(SleepColumns, rs.rows),
     feeding |-> DataFrame(FeedingColumns, rf.rows)]

\* lines 82-110: the outcomes of converting each column, cell by cell
converted(t) ==
    [sleep_date |-> [i \in 1..Len(t.sleep.rows) |->
                        to_datetime(Cells(t.sleep, "date")[i])],
     feeding_date |-> [i \in 1..Len(t.feeding.rows) |->
                          to_datetime(Cells(t.feeding, "date")[i])],
     sleep_start |-> [i \in 1..Len(t.sleep.rows) |->
                         parse_time(Cells(t.sleep, "sleep_start")[i])],
     sleep_end |-> [i \in 1..Len(t.sleep.rows) |->
                       parse_time(Cells(t.sleep, "sleep_end")[i])],
     feeding_time |-> [i \in 1..Len(t.feeding.rows) |->
                          parse_time(Cells(t.feeding, "feeding_time")[i])],
     duration_minutes |-> [i \in 1..Len(t.sleep.rows) |->
                              to_numeric(Cells(t.sleep, "duration_minutes")[i])],
     volume_ml |-> [i \in 1..Len(t.feeding.rows) |->
                       to_numeric(Cells(t.feeding, "volume_ml")[i])]]

\* lines 82-121: the conversions of the date, time and numeric columns; an
\* exception raised by one of them is caught by the function's outer except
convert(rs, rf) ==
    LET c == converted(renamed(rs, rf))
    IN  IF \E k \in DOMAIN c : Raised(c[k])
        THEN LoadResult(NoneDF, NoneDF, <<"load_exception">>)
        ELSE LoadResult(
                 DataFrame(SleepColumns,
                           [i \in 1..Len(rs.rows) |->
                                <<c.sleep_date[i].val, c.sleep_start[i].val,
                                  c.sleep_end[i].val, c.duration_minutes[i].val>>]),
                 DataFrame(FeedingColumns,
                           [i \in 1..Len(rf.rows) |->
                                <<c.feeding_date[i].val, rf.rows[i][2],
                                  c.feeding_time[i].val, c.volume_ml[i].val>>]),
                 << >>)

\* the column checks handing back the sleep table when only the feeding
\* table has the wrong number of columns
normalize_partial(rs, rf) ==
    IF Len(rs.columns) # 4
    THEN LoadResult(NoneDF, NoneDF, <<"sleep_columns">>)
    ELSE IF Len(rf.columns) # 4
    THEN LoadResult(DataFrame(SleepColumns, rs.rows), NoneDF,
                    <<"feeding_columns">>)
    ELSE convert(rs, rf)

\* lines 69-121: the column checks, then the conversions
normalize(rs, rf) ==
    IF Len(rs.columns) # 4
    THEN LoadResult(NoneDF, NoneDF, <<"sleep_columns">>)
    ELSE IF Len(rf.columns) # 4
    THEN LoadResult(NoneDF, NoneDF, <<"feeding_columns">>)
    ELSE convert(rs, rf)

----------------------------------------------------------------------------
(* create_detailed_chart *)

\* a < b for two tuples of numbers of the same length (dates, datetimes)
RECURSIVE Less(_, _)
Less(a, b) ==
    IF Len(a) = 0 THEN FALSE
    ELSE a[1] < b[1] \/ (a[1] = b[1] /\ Less(Tail(a), Tail(b)))

RECURSIVE sorted(_)
\* sorted(S) for a set of dates
sorted(S) ==
    IF S = {} THEN << >>
    ELSE LET m == CHOOSE x \in S : \A y \in S : ~Less(y, x)
         IN  <<m>> \o sorted(S \ {m})

Column(df, name) == {Get(df, df.rows[i], name) : i \in 1..Len(df.rows)}

\* f"{date} <kind>", the category of a record on the y axis
Label(date, kind) == <<date, kind>>

RECURSIVE y_labels(_)
y_labels(dates) ==
    IF dates = << >> THEN << >>
    ELSE <<Label(Head(dates), "sleep"), Label(Head(dates), "feeding")>>
         \o y_labels(Tail(dates))

\* datetime.datetime.combine(ref_date + days, t): <<days, hour, minute,
\* second>>, days counted from the reference date; t must be a time
combine(days, t) ==
    IF t = None THEN Raise("TypeError") ELSE Ok(<<days>> \o t)

\* bool(x) as before Python 3.5, where midnight was false too
truthy_midnight_false(t) == t # None /\ t # <<0, 0, 0>>

\* bool(x) for a time or None: only None is false
truthy(t) == t # None

\* the end instant left on the reference date whatever the start
end_instant_norollover(start_dt, end_time) == combine(0, end_time).val

\* lines 148-152: the end instant of a segment that starts at start_dt, on
\* the reference date, or on the next day when that is earlier than start_dt
end_instant(start_dt, end_time) ==
    LET end_dt == combine(0, end_time).val
    IN  IF Less(end_dt, start_dt) THEN combine(1, end_time).val ELSE end_dt

\* lines 140-179 for one row: the traces it adds; an exception is caught
\* and the row is skipped (none arises: the duration, a float or NaN, divides
\* and formats without raising). The hover text and the line style are left
\* out of the trace.
sleep_traces(df, row) ==
    LET date == Get(df, row, "date")
        start_time == Get(df, row, "sleep_start")
        end_time == Get(df, row, "sleep_end")
    IN  IF truthy(start_time) /\ truthy(end_time)
        THEN LET start_dt == combine(0, start_time).val
                 end_dt == end_instant(start_dt, end_time)
             IN  << [mode |-> "lines",
                     name |-> "sleep",
                     x |-> <<start_dt, end_dt>>,
                     y |-> <<Label(date, "sleep"), Label(date, "sleep")>>] >>
        ELSE << >>

RECURSIVE sleep_loop(_, _)
\* lines 139-179: the traces of rows, in order
sleep_loop(df, rows) ==
    IF rows = << >> THEN << >>
    ELSE sleep_traces(df, Head(rows)) \o sleep_loop(df, Tail(rows))

\* the feeding types that have a colour (line 182), in the dict's order; the
\* source's keys are the Chinese for direct feeding / formula / bottled
\* breast milk
colors == <<"direct", "formula", "bottled">>

\* a fraction n/d, d > 0, for the floats the size computation yields
FLess(x, y) == x[1] * y[2] < y[1] * x[2]

\* Python's min(a, b) and max(a, b) of two numbers
min(a, b) == IF FLess(b, a) THEN b ELSE a

max(a, b) == IF FLess(a, b) THEN b ELSE a

\* the marker size without the upper clamp
marker_size_noclamp(a) ==
    IF a # << >> THEN max(<<8, 1>>, <<a[1], 10>>) ELSE <<8, 1>>

\* line 207: max(8, min(20, a/10)) if pd.notna(a) else 8
marker_size(a) ==
    IF a # << >> THEN max(<<8, 1>>, min(<<20, 1>>, <<a[1], 10>>)) ELSE <<8, 1>>

SelectRows(df, name, v) == SelectSeq(df.rows, LAMBDA r : Get(df, r, name) = v)

\* lines 190-213 for one feeding type: the outcome holding the traces it
\* adds (none for a type with no row)
feeding_trace(df, feeding_type) ==
    LET rows == SelectRows(df, "feeding_type", feeding_type)
        n == Len(rows)
        times == [i \in 1..n |-> Get(df, rows[i], "feeding_time")]
    IN  IF n = 0 THEN Ok(<< >>)
        ELSE IF \E i \in 1..n : combine(0, times[i]).exc # ""
        THEN Raise("TypeError")
        ELSE Ok(<< [mode |-> "markers",
                    name |-> feeding_type,
                    x |-> [i \in 1..n |-> combine(0, times[i]).val],
                    y |-> [i \in 1..n |->
                               Label(Get(df, rows[i], "date"), "feeding")],
                    size |-> [i \in 1..n |->
                                  marker_size(Get(df, rows[i], "volume_ml"))],
                    text |-> [i \in 1..n |->
                                  <<feeding_type, Get(df, rows[i], "volume_ml")>>]]
                >>)

RECURSIVE feeding_loop(_, _)
\* lines 189-213: the traces of the types, in order; the first exception
\* propagates
feeding_loop(df, types) ==
    IF types = << >> THEN Ok(<< >>)
    ELSE LET t == feeding_trace(df, Head(types))
             rest == feeding_loop(df, Tail(types))
         IN  IF t.exc # "" THEN t
             ELSE IF rest.exc # "" THEN rest
             ELSE Ok(t.val \o rest.val)

\* the outcome of create_detailed_chart: the figure's category axis and
\* traces, or the exception it raises
create_detailed_chart(sdf, fdf) ==
    IF sdf = NoneDF \/ fdf = NoneDF THEN Raise("TypeError") ELSE
    LET all_dates == sorted(Column(sdf, "date") \cup Column(fdf, "date"))
        sleep == sleep_loop(sdf, sdf.rows)
        feeding == feeding_loop(fdf, colors)
    IN  IF feeding.exc # "" THEN feeding
        ELSE Ok([title |-> "detailed",
                 y_labels |-> y_labels(all_dates),
                 traces |-> sleep \o feeding.val])

----------------------------------------------------------------------------
(* create_daily_stats_charts *)

\* a number of a numeric column as summed by sum(): NaN is skipped
addend(v) == IF v = << >> THEN 0 ELSE v[1]

RECURSIVE group_sum(_, _, _, _)
\* the sum of column `name` over the rows of df dated `date`, added up in
\* the rows' order
group_sum(df, rows, name, date) ==
    IF rows = << >> THEN 0
    ELSE group_sum(df, SubSeq(rows, 1, Len(rows) - 1), name, date)
         + (IF Get(df, rows[Len(rows)], "date") = date
            THEN addend(Get(df, rows[Len(rows)], name)) ELSE 0)

\* a sum over the first row of each date only
groupby_first(df, name) ==
    LET keys == sorted(Column(df, "date"))
    IN  [k \in 1..Len(keys) |->
            <<keys[k], addend(Get(df, SelectRows(df, "date", keys[k])[1], name))>>]

\* df.groupby(date)[name].sum().reset_index(): one row <<date, sum>> for
\* each date of df, by increasing date
groupby_sum(df, name) ==
    LET keys == sorted(Column(df, "date"))
    IN  [k \in 1..Len(keys) |-> <<keys[k], group_sum(df, df.rows, name, keys[k])>>]

\* the outcome of create_daily_stats_charts: the two series; the sleep
\* series is in hours, the fraction <<minutes, 60>>. The point labels and
\* the layout are left out.
create_daily_stats_charts(sdf, fdf) ==
    IF sdf = NoneDF \/ fdf = NoneDF THEN Raise("TypeError") ELSE
    LET daily_sleep == groupby_sum(sdf, "duration_minutes")
        daily_milk == groupby_sum(fdf, "volume_ml")
    IN  Ok([title |-> "daily",
            sleep |-> [k \in 1..Len(daily_sleep) |->
                           <<daily_sleep[k][1], <<daily_sleep[k][2], 60>>>>],
            milk |-> daily_milk])

----------------------------------------------------------------------------
(* Specification SpecParse: parse_time applied to one cell *)

\* the most colon-separated parts of a cell
MaxParts == 3

\* the parts a cell is made of
Parts ==
    { << >>, <<"7">>, <<"0", "0">>, <<"2", "3">>, <<"2", "4">>, <<"5", "9">>,
      <<"6", "0">>, <<"9", "9">>, <<"1", "a">>, <<"1", "2", "3">> }

RECURSIVE Join(_)
\* ':'.join(ps)
Join(ps) ==
    IF Len(ps) = 1 THEN ps[1]
    ELSE ps[1] \o <<":">> \o Join(Tail(ps))

ParseCells ==
    {NaN} \cup UNION {{Join(ps) : ps \in [1..n -> Parts]} : n \in 1..MaxParts}

\* a variable the run has not set yet
Unset == Raise("unset")

Idle ==
    /\ raw_sleep = Unset /\ raw_feeding = Unset
    /\ sleep_df = NoneDF /\ feeding_df = NoneDF
    /\ errors = << >> /\ rendered = << >>
    /\ detailed_chart = Unset /\ daily_stats = Unset

InitParse ==
    /\ pc = "parse"
    /\ time_str \in ParseCells
    /\ parsed = Unset
    /\ Idle

ParseTime ==
    /\ pc = "parse"
    /\ parsed' = parse_time(time_str)
    /\ pc' = "parsed"
    /\ UNCHANGED <<raw_sleep, raw_feeding, sleep_df, feeding_df, errors,
                   rendered, detailed_chart, daily_stats, time_str>>

NextParse == ParseTime

SpecParse == InitParse /\ [][NextParse]_vars

----------------------------------------------------------------------------
(* main *)

\* lines 50-57 and 60-67: a failed read is reported and the load returns
\* (None, None); `read` is the outcome of pd.read_csv
ReadSleep(read) ==
    /\ pc = "start"
    /\ raw_sleep' = read
    /\ IF read.exc # ""
       THEN /\ errors' = Append(errors, "read_sleep_failed")
            /\ sleep_df' = NoneDF /\ feeding_df' = NoneDF
            /\ pc' = "loaded"
       ELSE /\ pc' = "read_feeding"
            /\ UNCHANGED <<errors, sleep_df, feeding_df>>
    /\ UNCHANGED <<raw_feeding, rendered, detailed_chart, daily_stats,
                   time_str, parsed>>

ReadFeeding(read) ==
    /\ pc = "read_feeding"
    /\ raw_feeding' = read
    /\ IF read.exc # ""
       THEN /\ errors' = Append(errors, "read_feeding_failed")
            /\ sleep_df' = NoneDF /\ feeding_df' = NoneDF
            /\ pc' = "loaded"
       ELSE /\ pc' = "normalize"
            /\ UNCHANGED <<errors, sleep_df, feeding_df>>
    /\ UNCHANGED <<raw_sleep, rendered, detailed_chart, daily_stats,
                   time_str, parsed>>

\* lines 69-121: the rest of load_data_from_github, up to its return
Normalize ==
    /\ pc = "normalize"
    /\ LET r == normalize(raw_sleep.val, raw_feeding.val)
       IN  /\ sleep_df' = r.sleep_df
           /\ feeding_df' = r.feeding_df
           /\ errors' = errors \o r.errors
    /\ pc' = "loaded"
    /\ UNCHANGED <<raw_sleep, raw_feeding, rendered, detailed_chart,
                   daily_stats, time_str, parsed>>

\* lines 322-324
CheckLoaded ==
    /\ pc = "loaded"
    /\ IF sleep_df = NoneDF \/ feeding_df = NoneDF
       THEN errors' = Append(errors, "no_data") /\ pc' = "done"
       ELSE pc' = "detailed" /\ UNCHANGED errors
    /\ UNCHANGED <<raw_sleep, raw_feeding, sleep_df, feeding_df, rendered,
                   detailed_chart, daily_stats, time_str, parsed>>

\* lines 327-329, and 336-337 when the builder raises
DetailedChart ==
    /\ pc = "detailed"
    /\ detailed_chart' = create_detailed_chart(sleep_df, feeding_df)
    /\ IF detailed_chart'.exc # ""
       THEN /\ errors' = Append(errors, "main_exception")
            /\ pc' = "done"
            /\ UNCHANGED rendered
       ELSE /\ rendered' = Append(rendered, detailed_chart'.val)
            /\ pc' = "daily"
            /\ UNCHANGED errors
    /\ UNCHANGED <<raw_sleep, raw_feeding, sleep_df, feeding_df, daily_stats,
                   time_str, parsed>>

\* lines 332-334, and 336-337 when the builder raises
DailyStats ==
    /\ pc = "daily"
    /\ daily_stats' = create_daily_stats_charts(sleep_df, feeding_df)
    /\ IF daily_stats'.exc # ""
       THEN /\ errors' = Append(errors, "main_exception")
            /\ UNCHANGED rendered
       ELSE /\ rendered' = Append(rendered, daily_stats'.val)
            /\ UNCHANGED errors
    /\ pc' = "done"
    /\ UNCHANGED <<raw_sleep, raw_feeding, sleep_df, feeding_df,
                   detailed_chart, time_str, parsed>>

----------------------------------------------------------------------------
(* Specification Spec: one run of main over the files read *)

\* the most rows of the two files together
MaxRows == 2

D0302 == <<"2", "0", "2", "4", "-", "0", "3", "-", "0", "2">>

D0310 == <<"2", "0", "2", "4", "-", "0", "3", "-", "1", "0">>

T2330 == <<"2", "3", ":", "3", "0">>

T0015 == <<"0", "0", ":", "1", "5">>

T0800 == <<"0", "8", ":", "0", "0">>

Junk == <<"a", "b">>

DateCells == {D0302, D0310, Junk}

RawSleepRows ==
    DateCells \X {T2330, Junk} \X {T0015} \X {<<"4", "5">>, Junk}

RawFeedingRows ==
    {D0310, Junk} \X {"direct", "formula", "other"} \X {T0800, NaN}
                  \X {<<"1", "0", "0">>, Junk}

\* the sequences of at most n elements of S
SeqUpTo(S, n) == UNION {[1..k -> S] : k \in 0..n}

\* a file's header, with the names it gives its n columns
Header(n) == [i \in 1..n |-> "column"]

\* the outcomes of pd.read_csv: a failed read, a table of three or five
\* columns, or a table of four columns with at most n rows
Reads(rowset, n) ==
    {Raise("read_failed")}
    \cup {Ok(DataFrame(Header(k), << >>)) : k \in {3, 5}}
    \cup {Ok(DataFrame(Header(4), rows)) : rows \in SeqUpTo(rowset, n)}

Init ==
    /\ pc = "start"
    /\ time_str = NaN
    /\ parsed = Unset
    /\ Idle

Next ==
    \/ /\ pc = "start"
       /\ \E read \in Reads(RawSleepRows, MaxRows) : ReadSleep(read)
    \/ /\ pc = "read_feeding"
       /\ \E read \in Reads(RawFeedingRows, MaxRows - Len(raw_sleep.val.rows)) :
              ReadFeeding(read)
    \/ Normalize
    \/ CheckLoaded
    \/ DetailedChart
    \/ DailyStats

Spec == Init /\ [][Next]_vars

----------------------------------------------------------------------------
(* Specifications of the chart builders over normalised tables *)

\* the most rows of the sleep table handed to create_detailed_chart
MaxSleepRows == 2

\* the most rows of the feeding table handed to create_detailed_chart
MaxFeedingRows == 2

\* the most rows of each table handed to create_daily_stats_charts
MaxDailyRows == 2

Dates == {<<2024, 3, 2>>, <<2024, 3, 10>>}

SleepRows ==
    Dates \X {None, <<0, 0, 0>>, <<0, 15, 0>>, <<23, 30, 0>>}
          \X {None, <<0, 0, 0>>, <<0, 15, 0>>, <<23, 30, 0>>}
          \X {<< >>, <<45>>}

FeedingRows ==
    {<<2024, 3, 2>>} \X {"direct", "formula", "other"} \X {None, <<8, 0, 0>>}
        \X {<< >>, <<0>>, <<80>>, <<100>>, <<150>>, <<200>>, <<500>>}

DailySleepRows == Dates \X {None} \X {None} \X {<< >>, <<30>>, <<45>>}

DailyFeedingRows ==
    Dates \X {"direct"} \X {<<8, 0, 0>>} \X {<< >>, <<100>>}

\* main at line 328 with the two tables loaded
InitChart(sleep_rows, feeding_rows) ==
    /\ pc = "detailed"
    /\ sleep_df = DataFrame(SleepColumns, sleep_rows)
    /\ feeding_df = DataFrame(FeedingColumns, feeding_rows)
    /\ raw_sleep = Unset /\ raw_feeding = Unset
    /\ errors = << >> /\ rendered = << >>
    /\ detailed_chart = Unset /\ daily_stats = Unset
    /\ time_str = NaN /\ parsed = Unset

InitSleepChart ==
    \E rows \in SeqUpTo(SleepRows, MaxSleepRows) : InitChart(rows, << >>)

InitFeedingChart ==
    \E rows \in SeqUpTo(FeedingRows, MaxFeedingRows) : InitChart(<< >>, rows)

InitDaily ==
    \E srows \in SeqUpTo(DailySleepRows, MaxDailyRows) :
        \E frows \in SeqUpTo(DailyFeedingRows, MaxDailyRows) :
            InitChart(srows, frows)

NextChart == DetailedChart \/ DailyStats

SpecSleepChart == InitSleepChart /\ [][NextChart]_vars

SpecFeedingChart == InitFeedingChart /\ [][NextChart]_vars

SpecDaily == InitDaily /\ [][NextChart]_vars

----------------------------------------------------------------------------
(* Claims *)

IsTimeOfDay(t) ==
    Len(t) = 3 /\ t[1] \in 0..23 /\ t[2] \in 0..59 /\ t[3] \in 0..59

\* the number written by the two digits of s at i and i + 1
Two(s, i) == 10 * DigitVal(s[i]) + DigitVal(s[i + 1])

\* s reads HH:MM with HH in 00..23 and MM in 00..59
WellFormedHHMM(s) ==
    /\ Len(s) = 5
    /\ s[3] = ":"
    /\ \A i \in {1, 2, 4, 5} : IsDigit(s[i])
    /\ Two(s, 1) <= 23 /\ Two(s, 4) <= 59

\* s reads HH:MM:SS with HH in 00..23, MM and SS in 00..59
WellFormedHHMMSS(s) ==
    /\ Len(s) = 8
    /\ s[3] = ":" /\ s[6] = ":"
    /\ \A i \in {1, 2, 4, 5, 7, 8} : IsDigit(s[i])
    /\ Two(s, 1) <= 23 /\ Two(s, 4) <= 59 /\ Two(s, 7) <= 59

\* absent or empty, no colon, a wrong number of colon-separated parts, or a
\* component that is not a number
Malformed(s) ==
    \/ s = NaN
    \/ s = << >>
    \/ Cardinality({i \in 1..Len(s) : s[i] = ":"}) \notin {1, 2}
    \/ \E i \in 1..Len(s) : s[i] # ":" /\ ~IsDigit(s[i])
    \/ s[1] = ":" \/ s[Len(s)] = ":"
    \/ \E i \in 1..(Len(s) - 1) : s[i] = ":" /\ s[i + 1] = ":"

\* C1: parse_time never raises and returns a time of day or None; a
\* well-formed HH:MM gives (HH, MM, 0), a well-formed HH:MM:SS gives
\* (HH, MM, SS), and an absent or empty cell, a cell with no colon, with a
\* wrong number of parts or with a non-numeric component gives None.
C1_ParseTimeContract ==
    pc = "parsed" =>
        /\ parsed.exc = ""
        /\ parsed.val = None \/ IsTimeOfDay(parsed.val)
        /\ WellFormedHHMM(time_str) =>
               parsed.val = <<Two(time_str, 1), Two(time_str, 4), 0>>
        /\ WellFormedHHMMSS(time_str) =>
               parsed.val = <<Two(time_str, 1), Two(time_str, 4), Two(time_str, 7)>>
        /\ Malformed(time_str) => parsed.val = None

\* 23:59:00 has been parsed to (23, 59, 0)
C1_Witness ==
    /\ pc = "parsed"
    /\ WellFormedHHMMSS(time_str)
    /\ parsed.val = <<23, 59, 0>>

\* a cell with a non-numeric component has been parsed
C1_WitnessMalformed ==
    /\ pc = "parsed"
    /\ time_str = <<"1", "a", ":", "0", "0">>
    /\ parsed.val = None


\* the load has returned
Loaded == pc \in {"loaded", "detailed", "daily", "done"}

\* both files were read
BothRead == raw_sleep.exc = "" /\ raw_feeding.exc = ""

\* a file read has a number of columns other than four
SchemaMismatch ==
    /\ BothRead
    /\ Len(raw_sleep.val.columns) # 4 \/ Len(raw_feeding.val.columns) # 4

\* C2: when either raw table has a number of columns other than four, the
\* load returns (None, None), never one normalised table alone, and reports
\* the mismatch.
C2_SchemaMismatchAborts ==
    (Loaded /\ SchemaMismatch) =>
        /\ sleep_df = NoneDF
        /\ feeding_df = NoneDF
        /\ errors # << >>

\* the load has returned for a sleep table of three columns and a feeding
\* table of four
C2_Witness ==
    /\ pc = "loaded"
    /\ BothRead
    /\ Len(raw_sleep.val.columns) = 3
    /\ Len(raw_feeding.val.columns) = 4
    /\ sleep_df = NoneDF /\ feeding_df = NoneDF

\* a date cell of a file read is no date
DateParseFailure ==
    /\ BothRead
    /\ ~SchemaMismatch
    /\ \/ \E i \in 1..Len(raw_sleep.val.rows) :
              raw_sleep.val.rows[i][1] \notin {D0302, D0310}
       \/ \E i \in 1..Len(raw_feeding.val.rows) :
              raw_feeding.val.rows[i][1] \notin {D0302, D0310}

\* the load fails: a read fails (or has not happened), a table has the wrong
\* number of columns, or a date cell is no date
LoadFails == ~BothRead \/ SchemaMismatch \/ DateParseFailure

\* C7: a chart is rendered only after the load has returned both normalised
\* tables; when the load fails, the failure is reported and no chart is
\* rendered.
C7_RenderOnlyAfterLoad ==
    /\ rendered # << >> =>
           Loaded /\ ~LoadFails /\ sleep_df # NoneDF /\ feeding_df # NoneDF
    /\ (pc = "done" /\ LoadFails) => (rendered = << >> /\ errors # << >>)

\* a run has ended on a date cell that is no date, with nothing rendered
C7_Witness ==
    /\ pc = "done"
    /\ DateParseFailure
    /\ rendered = << >>
    /\ errors = <<"load_exception", "no_data">>

\* a run has rendered both charts
C7_WitnessRendered == pc = "done" /\ Len(rendered) = 2

\* C6: a malformed time or numeric cell never aborts the run: whenever the
\* load succeeds, main renders both charts.
C6_CoercionNeverAborts ==
    (pc = "done" /\ ~LoadFails) => Len(rendered) = 2

\* C5: every feeding record yields a point of the timeline, whatever its
\* feeding type.
C5_EveryFeedingPreserved ==
    detailed_chart.exc = "" =>
        \A i \in 1..Len(feeding_df.rows) :
            \E k \in 1..Len(detailed_chart.val.traces) :
                LET t == detailed_chart.val.traces[k]
                IN  /\ t.mode = "markers"
                    /\ t.name = Get(feeding_df, feeding_df.rows[i], "feeding_type")

RECURSIVE DaysBefore(_, _)
\* the days of year y before month m
DaysBefore(y, m) == IF m = 1 THEN 0 ELSE DaysBefore(y, m - 1) + DaysIn(y, m - 1)

\* the day of its year of a date
DayOfYear(d) == DaysBefore(d[1], d[2]) + d[3]

\* the dates of the rows handed to the chart builders
ChartDates == Column(sleep_df, "date") \cup Column(feeding_df, "date")

\* C9: under the 'last 7 days' selector the rows handed to the charts are
\* those dated within 7 days of the latest date of either dataset.
C9_Last7DaysWindow ==
    rendered # << >> =>
        \A d \in ChartDates : \A e \in ChartDates :
            DayOfYear(e) - DayOfYear(d) <= 7


\* the traces of the timeline drawn in mode m, in order
Traces(m) ==
    SelectSeq(detailed_chart.val.traces, LAMBDA t : t.mode = m)

\* the sleep records whose two endpoints are known, in order
KnownSleep ==
    SelectSeq(sleep_df.rows,
              LAMBDA r : /\ Get(sleep_df, r, "sleep_start") # None
                         /\ Get(sleep_df, r, "sleep_end") # None)

\* the seconds from the reference date's midnight to an instant, and from
\* midnight to a time of day
Seconds(dt) == ((dt[1] * 24 + dt[2]) * 60 + dt[3]) * 60 + dt[4]

ClockSeconds(t) == (t[1] * 60 + t[2]) * 60 + t[3]

\* C10: the timeline is built whatever the sleep records' endpoints, and it
\* holds exactly one segment for each sleep record whose two endpoints are
\* known (midnight included), labelled with that record's date, and none for
\* a record with an unknown endpoint.
C10_OneSegmentPerKnownRecord ==
    pc \in {"daily", "done"} =>
        /\ detailed_chart.exc = ""
        /\ Len(Traces("lines")) = Len(KnownSleep)
        /\ \A k \in 1..Len(KnownSleep) :
               k <= Len(Traces("lines")) =>
                   Traces("lines")[k].y =
                       << <<Get(sleep_df, KnownSleep[k], "date"), "sleep">>,
                          <<Get(sleep_df, KnownSleep[k], "date"), "sleep">> >>

\* the timeline has been built for a record with an unknown start followed
\* by one that starts at midnight
C10_Witness ==
    /\ pc = "daily"
    /\ Len(sleep_df.rows) = 2
    /\ Get(sleep_df, sleep_df.rows[1], "sleep_start") = None
    /\ Get(sleep_df, sleep_df.rows[2], "sleep_start") = <<0, 0, 0>>
    /\ Get(sleep_df, sleep_df.rows[2], "sleep_end") = <<0, 15, 0>>
    /\ Len(Traces("lines")) = 1

\* C3: the segment of a sleep record with known endpoints starts on the
\* reference date at the start time; its end is never before its start, is
\* on the next day exactly when the end time is earlier than the start time,
\* and lies (end - start) modulo 24 hours after the start.
C3_SegmentRollover ==
    (pc \in {"daily", "done"} /\ detailed_chart.exc = "") =>
        \A k \in 1..Len(KnownSleep) :
            k <= Len(Traces("lines")) =>
                LET start == Get(sleep_df, KnownSleep[k], "sleep_start")
                    end == Get(sleep_df, KnownSleep[k], "sleep_end")
                    x == Traces("lines")[k].x
                IN  /\ x[1] = <<0>> \o start
                    /\ SubSeq(x[2], 2, 4) = end
                    /\ Seconds(x[2]) >= Seconds(x[1])
                    /\ x[2][1] = 1 <=> ClockSeconds(end) < ClockSeconds(start)
                    /\ x[2][1] \in {0, 1}
                    /\ Seconds(x[2]) - Seconds(x[1]) =
                           (ClockSeconds(end) - ClockSeconds(start)) % 86400

\* the segment of a record from 23:30 to 00:15 is 45 minutes long
C3_Witness ==
    /\ pc = "daily"
    /\ Len(sleep_df.rows) >= 1
    /\ Get(sleep_df, sleep_df.rows[1], "sleep_start") = <<23, 30, 0>>
    /\ Get(sleep_df, sleep_df.rows[1], "sleep_end") = <<0, 15, 0>>
    /\ Len(Traces("lines")) >= 1
    /\ Seconds(Traces("lines")[1].x[2]) - Seconds(Traces("lines")[1].x[1]) = 45 * 60

\* the feeding points of the timeline, each with its record's volume and its
\* marker size
FeedingPoints ==
    UNION { LET t == Traces("markers")[k]
                rows == SelectRows(feeding_df, "feeding_type", t.name)
            IN  { [volume |-> Get(feeding_df, rows[i], "volume_ml"),
                   size |-> t.size[i]] : i \in 1..Len(t.size) }
            : k \in 1..Len(Traces("markers")) }

\* the size n/d is the whole number k
SizeIs(sz, k) == sz[1] = k * sz[2]

\* C8: a feeding point's marker size is volume / 10 clamped to [8, 20], and
\* 8 for an unknown volume; it is non-decreasing in the volume, and volumes
\* 0, 100 and 500 give 8, 10 and 20.
C8_MarkerSize ==
    (pc \in {"daily", "done"} /\ detailed_chart.exc = "") =>
        /\ \A p \in FeedingPoints :
               /\ 8 * p.size[2] <= p.size[1] /\ p.size[1] <= 20 * p.size[2]
               /\ p.volume = << >> => SizeIs(p.size, 8)
               /\ p.volume = <<0>> => SizeIs(p.size, 8)
               /\ p.volume = <<100>> => SizeIs(p.size, 10)
               /\ p.volume = <<500>> => SizeIs(p.size, 20)
               /\ p.volume # << >> =>
                      IF p.volume[1] <= 80 THEN SizeIs(p.size, 8)
                      ELSE IF p.volume[1] >= 200 THEN SizeIs(p.size, 20)
                      ELSE 10 * p.size[1] = p.volume[1] * p.size[2]
        /\ \A p \in FeedingPoints : \A q \in FeedingPoints :
               (p.volume # << >> /\ q.volume # << >> /\ p.volume[1] <= q.volume[1])
                   => p.size[1] * q.size[2] <= q.size[1] * p.size[2]

\* the timeline holds a point of volume 150 and one of volume 500
C8_Witness ==
    /\ pc = "daily"
    /\ detailed_chart.exc = ""
    /\ \E p \in FeedingPoints : p.volume = <<150>> /\ 10 * p.size[1] = 150 * p.size[2]
    /\ \E p \in FeedingPoints : p.volume = <<500>> /\ SizeIs(p.size, 20)

RECURSIVE SumOf(_, _, _, _)
\* the sum, from the first row on, of column `name` over the rows of df
\* dated d, an unknown value counting 0
SumOf(df, rows, name, d) ==
    IF rows = << >> THEN 0
    ELSE (IF Get(df, Head(rows), "date") = d /\ Get(df, Head(rows), name) # << >>
          THEN Get(df, Head(rows), name)[1] ELSE 0)
         + SumOf(df, Tail(rows), name, d)

\* the permutations of 1..n
Perms(n) == {f \in [1..n -> 1..n] : \A i, j \in 1..n : f[i] = f[j] => i = j}

\* df with its rows in the order f
Permuted(df, f) == DataFrame(df.columns, [i \in 1..Len(df.rows) |-> df.rows[f[i]]])

\* series holds exactly one aggregate for each date of df, the sum of column
\* `name` on that date
DailySums(series, df, name) ==
    /\ {series[k][1] : k \in 1..Len(series)} = Column(df, "date")
    /\ Len(series) = Cardinality(Column(df, "date"))
    /\ \A k \in 1..Len(series) :
           series[k][2] = SumOf(df, df.rows, name, series[k][1])

\* C4: the daily statistics hold, for each dataset, exactly one aggregate for
\* each date that has a record and none for another date; it is the sum of
\* that date's values, an unknown value counting 0, and is the same for
\* every order of the rows.
C4_DailySums ==
    pc = "done" =>
        /\ daily_stats.exc = ""
        /\ DailySums([k \in 1..Len(daily_stats.val.sleep) |->
                          <<daily_stats.val.sleep[k][1], daily_stats.val.sleep[k][2][1]>>],
                     sleep_df, "duration_minutes")
        /\ DailySums(daily_stats.val.milk, feeding_df, "volume_ml")
        /\ \A f \in Perms(Len(sleep_df.rows)) : \A g \in Perms(Len(feeding_df.rows)) :
               create_daily_stats_charts(Permuted(sleep_df, f), Permuted(feeding_df, g))
                   = daily_stats

\* the statistics have been built for two sleep records of one date, one of
\* an unknown duration, and two feeding records of that date
C4_Witness ==
    /\ pc = "done"
    /\ Len(sleep_df.rows) = 2 /\ Len(feeding_df.rows) = 2
    /\ Column(sleep_df, "date") = {<<2024, 3, 10>>}
    /\ Column(sleep_df, "duration_minutes") = {<< >>, <<45>>}
    /\ Column(feeding_df, "date") = {<<2024, 3, 10>>}
    /\ daily_stats.val.sleep = << <<<<2024, 3, 10>>, <<45, 60>>>> >>
    /\ daily_stats.val.milk = << <<<<2024, 3, 10>>, 200>> >>

============================================================================
